---- MODULE Spec2Model ----
(***************************************************************************)
(* The relay gateway of server.py: one ConnectionManager holding the       *)
(* session registry (web_clients) and the worker slot (local_worker), and  *)
(* one coroutine per websocket connection (web_client_websocket,           *)
(* worker_websocket).  Every action is the code a handler runs between two *)
(* suspension points (await).                                              *)
(***************************************************************************)
EXTENDS Integers, Sequences, FiniteSets, TLC

\* ---------------------------------------------------------------- bounds
\* what the peers do once connected, all connections together: a frame sent
\* (a browser's envelope, a worker's envelope, a frame that is not JSON) or a
\* peer going away
MaxEvents == 2
\* connections opened, browsers and workers together
MaxConns == 3
\* the WebSocket objects one page creates, the fetches of the status probe it has
\* in flight, the questions it has sent without an answer
MaxSockets == 2
MaxPolls == 2
MaxAsks == 2
\* the bytes of an uploaded file or of a payload to reassemble
MaxFile == 4

\* ---------------------------------------------------------------- universe
SessConns == {"s1", "s2"}
WorkConns == {"w1", "w2"}
Users == {"alice", "bob"}
\* the identifiers a connection may come with: the first browser's is called
\* alice, the second's is the same or another
PathUsers(c) == IF c = "s1" THEN {"alice"} ELSE Users
None == "None"
\* the value of message.get("user_id") / the state of a client envelope that carries no user_id
NoUid == "no_user_id"
\* a deleted slot of the dict's entry array
Dummy == [k |-> "<dummy>", v |-> None]

\* payloads that tell the envelopes of one sender apart
SeqData == <<"d1", "d2", "d3", "d4", "d5", "d6">>

WaitingText == "Waiting for local AI worker to connect..."
ConnectedText == "AI worker connected. Ready to upload."
DisconnectedText == "AI worker disconnected. Please refresh."

Envelope(t, u, d) == [type |-> t, user_id |-> u, data |-> d]
StatusEnvelope(text) == Envelope("status", NoUid, text)
ListChats(u) == Envelope("list_chats", u, "")

\* what a browser may send: the type, and the user_id it claims (if any)
ClientSends == {<<"ask", NoUid>>, <<"ask", "bob">>, <<"ping", NoUid>>}
\* what a worker may emit: an answer addressed to a user, or the handshake
\* envelope {"type": "auth", ...}, which carries no user_id
WorkerEmits == {<<"answer_chunk", "alice">>, <<"answer_chunk", "bob">>, <<"auth", NoUid>>}

\* ---------------------------------------------------------------- state
VARIABLES
    web_clients,   \* ConnectionManager.web_clients: the dict's entry array, in insertion order
    local_worker,  \* ConnectionManager.local_worker: a worker connection or None
    spc,           \* where each web_client_websocket coroutine stands
    uid,           \* the user_id path parameter of each session connection
    wpc,           \* where each worker_websocket coroutine stands
    it,            \* the dict iterator of the notification loop each worker handler runs
    chan,          \* each connection's transport: "new", "open" or "closed"
    outbox,        \* what the gateway has written to each session connection and the peer has got
    inbox,         \* what the gateway has written to each worker connection and the peer has got,
                   \* each with the session connection whose handler wrote it
    slog,          \* history: the envelopes each browser has sent, as sent
    wlog,          \* history: the envelopes each worker has emitted, as emitted
    events,        \* history: how many frames the peers have sent and how many have gone away
    ui,            \* the page's elements: the status line and which controls are disabled
    js,            \* the page script's variables: bubbles, socket, timers, requests in flight
    socks,         \* the state of each WebSocket object the page has created
    asks,          \* history: the `ask` requests sent and not yet answered
    up,            \* the upload endpoint's coroutine: the file, its encoding, the position
    rs             \* the chunk reassembler: its input, its buffers, what finish returned

gatewayVars ==
    <<web_clients, local_worker, spc, uid, wpc, it, chan, outbox, inbox, slog, wlog, events>>
pageVars == <<ui, js, socks, asks>>
uploadVars == <<up, rs>>
vars == <<gatewayVars, pageVars, uploadVars>>

\* connections are opened in a fixed order: which of two unused connections a
\* peer gets makes no difference
Earlier(c) == CASE c = "s2" -> {"s1"} [] c = "w2" -> {"w1"} [] OTHER -> {}
Opened == {c \in SessConns \cup WorkConns : chan[c] # "new"}
CanOpen(c) ==
    /\ chan[c] = "new"
    /\ \A e \in Earlier(c) : chan[e] # "new"
    /\ Cardinality(Opened) < MaxConns

\* ---------------------------------------------------------------- the dict
Slots(d) == 1..Len(d)
LiveSlots(d) == {i \in Slots(d) : d[i] # Dummy}
\* user_id in self.web_clients
HasKey(d, u) == \E i \in Slots(d) : d[i].k = u
SlotOf(d, u) == CHOOSE i \in Slots(d) : d[i].k = u
\* the keys as a bug would have them: those of deleted entries too
Keys_WithDeleted(d) == {d[i].k : i \in Slots(d)}
\* list(self.web_clients.keys())
Keys(d) == {d[i].k : i \in LiveSlots(d)}

\* self.web_clients[user_id]
Lookup(d, u) == IF HasKey(d, u) THEN d[SlotOf(d, u)].v ELSE None
\* len(self.web_clients)
Used(d) == Cardinality(LiveSlots(d))

\* register as a bug would have it: an identifier already present keeps its channel
register_FirstWins(d, u, c) ==
    IF HasKey(d, u) THEN d ELSE Append(d, [k |-> u, v |-> c])

\* self.web_clients[user_id] = websocket
register(d, u, c) ==
    IF HasKey(d, u) THEN [d EXCEPT ![SlotOf(d, u)].v = c]
    ELSE Append(d, [k |-> u, v |-> c])

\* deregister as a bug would have it: self.web_clients.clear()
deregister_All(d, u) ==
    IF HasKey(d, u) THEN [i \in Slots(d) |-> Dummy] ELSE d

\* if user_id in self.web_clients: del self.web_clients[user_id]
deregister(d, u) ==
    IF HasKey(d, u) THEN [d EXCEPT ![SlotOf(d, u)] = Dummy]
    ELSE d

\* iter(self.web_clients.values())
NoIter == [used |-> 0, pos |-> 0, len |-> 0]
NewIter(d) == [used |-> Used(d), pos |-> 0, len |-> Used(d)]
\* next() on the values iterator: the dict's size is compared with the size at
\* creation, dummies are skipped, and an item found after len items is an error
IterNext(d, i) ==
    LET rest == {j \in LiveSlots(d) : j > i.pos} IN
    IF i.used # Used(d) THEN [kind |-> "error", v |-> None, it |-> i]
    ELSE IF rest = {} THEN [kind |-> "stop", v |-> None, it |-> i]
    ELSE IF i.len = 0 THEN [kind |-> "error", v |-> None, it |-> i]
    ELSE LET j == CHOOSE x \in rest : \A y \in rest : x <= y IN
         [kind |-> "item", v |-> d[j].v,
          it |-> [used |-> i.used, pos |-> j, len |-> i.len - 1]]

\* ---------------------------------------------------------------- the transport
\* How send_json on connection c can end.  On an open transport the peer gets
\* the message.  On a closed one the write is lost before the close is seen,
\* or raises WebSocketDisconnect, or raises another exception, depending on
\* the server library and on timing.
SendOutcomes(c) ==
    IF chan[c] = "open" THEN {"ok"} ELSE {"lost", "disconnect", "error"}

\* ---------------------------------------------------------------- the status probe
\* GET /status, which the browser polls: whether the worker slot is occupied,
\* and the identifiers in the registry
StatusProbe ==
    [worker_connected |-> local_worker # None, sessions |-> Keys(web_clients)]

\* ConnectionManager() with no connection made yet
GatewayInit ==
    /\ web_clients = <<>>
    /\ local_worker = None
    /\ spc = [c \in SessConns |-> "idle"]
    /\ uid = [c \in SessConns |-> NoUid]
    /\ wpc = [w \in WorkConns |-> "idle"]
    /\ it = [w \in WorkConns |-> NoIter]
    /\ chan = [c \in SessConns \cup WorkConns |-> "new"]
    /\ outbox = [c \in SessConns |-> <<>>]
    /\ inbox = [w \in WorkConns |-> <<>>]
    /\ slog = [c \in SessConns |-> <<>>]
    /\ wlog = [w \in WorkConns |-> <<>>]
    /\ events = 0


\* ---------------------------------------------------------------- helpers
\* Tag as a bug would have it: data.setdefault('user_id', user_id)
Tag_KeepClaim(env, u) ==
    IF env.user_id = NoUid THEN [env EXCEPT !.user_id = u] ELSE env

\* data['user_id'] = user_id
Tag(env, u) == [env EXCEPT !.user_id = u]

\* the connection forward_to_worker writes to: `if self.local_worker:`
WorkerTarget == local_worker

\* how the write of forward_to_worker can end; "absent" is the else branch
ForwardOutcomes ==
    IF WorkerTarget = None THEN {"absent"} ELSE SendOutcomes(WorkerTarget)

\* forward_to_worker as a bug would have it: the newest envelope overtakes the others
forward_to_worker_Overtake(msg, c, o) ==
    inbox' = IF o = "ok"
             THEN [inbox EXCEPT ![WorkerTarget] = <<[env |-> msg, src |-> c]>> \o @]
             ELSE inbox

\* forward_to_worker(message), written by the handler of session connection c, ending as o
forward_to_worker(msg, c, o) ==
    inbox' = IF o = "ok"
             THEN [inbox EXCEPT ![WorkerTarget] = Append(@, [env |-> msg, src |-> c])]
             ELSE inbox

\* ClientTarget as bugs would have it: the user_id is not looked at, or an
\* envelope for an unknown user_id goes to whoever is registered
FirstClient == IF LiveSlots(web_clients) = {} THEN None
               ELSE web_clients[CHOOSE i \in LiveSlots(web_clients) :
                                    \A j \in LiveSlots(web_clients) : i <= j].v
ClientTarget_First(msg) == FirstClient
ClientTarget_Fallback(msg) ==
    IF msg.user_id # NoUid /\ HasKey(web_clients, msg.user_id)
    THEN Lookup(web_clients, msg.user_id)
    ELSE FirstClient

\* the connection forward_to_web_client writes to, or None:
\* `if user_id and user_id in self.web_clients`
ClientTarget(msg) ==
    IF msg.user_id # NoUid /\ HasKey(web_clients, msg.user_id)
    THEN Lookup(web_clients, msg.user_id)
    ELSE None

\* One pass of `for client in self.web_clients.values(): await client.send_json(status)`
\* in the handler of worker connection w, from iterator state i: next(), then the
\* write.  An exception (of next() or of the write) leaves both callers, since
\* connect_local_worker runs outside the try and disconnect_local_worker inside
\* the except clause.  ch and ob are the transports and the outboxes as the
\* caller leaves them.
Notify(w, i, text, loopPc, stopPc, ch, ob) ==
    LET r == IterNext(web_clients, i) IN
    IF r.kind = "error" THEN
        /\ wpc' = [wpc EXCEPT ![w] = "crashed"]
        /\ it' = [it EXCEPT ![w] = NoIter]
        /\ chan' = [ch EXCEPT ![w] = "closed"]
        /\ outbox' = ob
    ELSE IF r.kind = "stop" THEN
        /\ wpc' = [wpc EXCEPT ![w] = stopPc]
        /\ it' = [it EXCEPT ![w] = NoIter]
        /\ chan' = IF stopPc = "done" THEN [ch EXCEPT ![w] = "closed"] ELSE ch
        /\ outbox' = ob
    ELSE \E o \in SendOutcomes(r.v) :
        IF o \in {"ok", "lost"} THEN
            /\ wpc' = [wpc EXCEPT ![w] = loopPc]
            /\ it' = [it EXCEPT ![w] = r.it]
            /\ chan' = ch
            /\ outbox' = IF o = "ok"
                         THEN [ob EXCEPT ![r.v] = Append(@, StatusEnvelope(text))]
                         ELSE ob
        ELSE
            /\ wpc' = [wpc EXCEPT ![w] = "crashed"]
            /\ it' = [it EXCEPT ![w] = NoIter]
            /\ chan' = [ch EXCEPT ![w] = "closed"]
            /\ outbox' = ob

\* ---------------------------------------------------------------- session handler
\* web_client_websocket up to its first suspension after registering:
\* connect_web_client, then the status envelope
SessConnect(c, u) ==
    /\ spc[c] = "idle"
    /\ CanOpen(c)
    /\ chan' = [chan EXCEPT ![c] = "open"]
    /\ uid' = [uid EXCEPT ![c] = u]
    /\ web_clients' = register(web_clients, u, c)
    /\ outbox' = [outbox EXCEPT ![c] = Append(@, StatusEnvelope(
                      IF local_worker = None THEN WaitingText ELSE ConnectedText))]
    /\ spc' = [spc EXCEPT ![c] = IF local_worker = None THEN "recv" ELSE "list_chats"]
    /\ UNCHANGED <<local_worker, wpc, it, inbox, slog, wlog, events, pageVars, uploadVars>>

\* forward_to_worker({"type": "list_chats", "user_id": user_id}), outside the try
SessListChats(c) ==
    /\ spc[c] = "list_chats"
    /\ \E o \in ForwardOutcomes :
        /\ forward_to_worker(ListChats(uid[c]), c, o)
        /\ IF o \in {"disconnect", "error"}
           THEN /\ spc' = [spc EXCEPT ![c] = "crashed"]
                /\ chan' = [chan EXCEPT ![c] = "closed"]
           ELSE /\ spc' = [spc EXCEPT ![c] = "recv"]
                /\ chan' = chan
    /\ UNCHANGED <<web_clients, local_worker, uid, wpc, it, outbox, slog, wlog, events, pageVars, uploadVars>>

\* one turn of the read loop: receive_json, the user_id tag, forward_to_worker
SessRecv(c, t, claim) ==
    /\ spc[c] = "recv"
    /\ chan[c] = "open"
    /\ events < MaxEvents
    /\ events' = events + 1
    /\ LET raw == Envelope(t, claim, SeqData[Len(slog[c]) + 1]) IN
        /\ slog' = [slog EXCEPT ![c] = Append(@, raw)]
        /\ \E o \in ForwardOutcomes :
            /\ forward_to_worker(Tag(raw, uid[c]), c, o)
            /\ CASE o = "disconnect" ->
                    \* except WebSocketDisconnect: disconnect_web_client(user_id)
                    /\ web_clients' = deregister(web_clients, uid[c])
                    /\ spc' = [spc EXCEPT ![c] = "done"]
                    /\ chan' = [chan EXCEPT ![c] = "closed"]
                 [] o = "error" ->
                    /\ web_clients' = web_clients
                    /\ spc' = [spc EXCEPT ![c] = "crashed"]
                    /\ chan' = [chan EXCEPT ![c] = "closed"]
                 [] OTHER ->
                    /\ UNCHANGED <<web_clients, spc, chan>>
    /\ UNCHANGED <<local_worker, uid, wpc, it, outbox, wlog, pageVars, uploadVars>>

\* receive_json raises WebSocketDisconnect: disconnect_web_client(user_id)
SessDisconnect(c) ==
    /\ spc[c] = "recv"
    /\ chan[c] = "closed"
    /\ web_clients' = deregister(web_clients, uid[c])
    /\ spc' = [spc EXCEPT ![c] = "done"]
    /\ UNCHANGED <<local_worker, uid, wpc, it, chan, outbox, inbox, slog, wlog, events, pageVars, uploadVars>>

\* receive_json on a frame that is not JSON: the exception is not a
\* WebSocketDisconnect, the coroutine ends and the server closes the connection
SessBadJson(c) ==
    /\ events < MaxEvents
    /\ events' = events + 1
    /\ spc[c] = "recv"
    /\ chan[c] = "open"
    /\ spc' = [spc EXCEPT ![c] = "crashed"]
    /\ chan' = [chan EXCEPT ![c] = "closed"]
    /\ UNCHANGED <<web_clients, local_worker, uid, wpc, it, outbox, inbox, slog, wlog, pageVars, uploadVars>>

\* the peer of an open connection (browser or worker) goes away
PeerClose(c) ==
    /\ events < MaxEvents
    /\ events' = events + 1
    /\ chan[c] = "open"
    /\ chan' = [chan EXCEPT ![c] = "closed"]
    /\ UNCHANGED <<web_clients, local_worker, spc, uid, wpc, it, outbox, inbox, slog, wlog, pageVars, uploadVars>>

\* ---------------------------------------------------------------- worker handler
\* worker_websocket up to its first suspension: connect_local_worker's
\* assignment and the first pass of its loop
WorkerConnect(w) ==
    /\ wpc[w] = "idle"
    /\ CanOpen(w)
    /\ local_worker' = w
    /\ Notify(w, NewIter(web_clients), ConnectedText, "notify_on", "recv",
              [chan EXCEPT ![w] = "open"], outbox)
    /\ UNCHANGED <<web_clients, spc, uid, inbox, slog, wlog, events, pageVars, uploadVars>>

\* a later pass of connect_local_worker's loop
WorkerNotifyOn(w) ==
    /\ wpc[w] = "notify_on"
    /\ Notify(w, it[w], ConnectedText, "notify_on", "recv", chan, outbox)
    /\ UNCHANGED <<web_clients, local_worker, spc, uid, inbox, slog, wlog, events, pageVars, uploadVars>>

\* one turn of the read loop: receive_json, forward_to_web_client
WorkerRecv(w, t, addr) ==
    /\ wpc[w] = "recv"
    /\ chan[w] = "open"
    /\ events < MaxEvents
    /\ events' = events + 1
    /\ LET msg == Envelope(t, addr, SeqData[Len(wlog[w]) + 1])
           dst == ClientTarget(msg) IN
        /\ wlog' = [wlog EXCEPT ![w] = Append(@, msg)]
        /\ IF dst = None
           THEN UNCHANGED <<local_worker, wpc, it, chan, outbox>>
           ELSE \E o \in SendOutcomes(dst) :
                CASE o = "ok" ->
                        /\ outbox' = [outbox EXCEPT ![dst] = Append(@, msg)]
                        /\ UNCHANGED <<local_worker, wpc, it, chan>>
                  [] o = "lost" ->
                        UNCHANGED <<local_worker, wpc, it, chan, outbox>>
                  [] o = "disconnect" ->
                        \* except WebSocketDisconnect: disconnect_local_worker()
                        /\ local_worker' = None
                        /\ Notify(w, NewIter(web_clients), DisconnectedText,
                                  "notify_off", "done", chan, outbox)
                  [] o = "error" ->
                        /\ wpc' = [wpc EXCEPT ![w] = "crashed"]
                        /\ chan' = [chan EXCEPT ![w] = "closed"]
                        /\ UNCHANGED <<local_worker, it, outbox>>
    /\ UNCHANGED <<web_clients, spc, uid, inbox, slog, pageVars, uploadVars>>

\* receive_json raises WebSocketDisconnect: disconnect_local_worker's
\* assignment and the first pass of its loop
WorkerDisconnect(w) ==
    /\ wpc[w] = "recv"
    /\ chan[w] = "closed"
    /\ local_worker' = None
    /\ Notify(w, NewIter(web_clients), DisconnectedText, "notify_off", "done",
              chan, outbox)
    /\ UNCHANGED <<web_clients, spc, uid, inbox, slog, wlog, events, pageVars, uploadVars>>

\* a later pass of disconnect_local_worker's loop
WorkerNotifyOff(w) ==
    /\ wpc[w] = "notify_off"
    /\ Notify(w, it[w], DisconnectedText, "notify_off", "done", chan, outbox)
    /\ UNCHANGED <<web_clients, local_worker, spc, uid, inbox, slog, wlog, events, pageVars, uploadVars>>

\* receive_json on a frame that is not JSON: the coroutine ends outside the
\* except clause and the server closes the connection
WorkerBadJson(w) ==
    /\ events < MaxEvents
    /\ events' = events + 1
    /\ wpc[w] = "recv"
    /\ chan[w] = "open"
    /\ wpc' = [wpc EXCEPT ![w] = "crashed"]
    /\ chan' = [chan EXCEPT ![w] = "closed"]
    /\ UNCHANGED <<web_clients, local_worker, spc, uid, it, outbox, inbox, slog, wlog, pageVars, uploadVars>>

\* ---------------------------------------------------------------- the page
\* The page of src/app.py as one browser runs it.  Of the gateway it sees the
\* answers of the status probe and of the upload call, and the WebSocket
\* objects it has created with what arrives on them.

\* the texts the script shows
ConnectingText == "Connecting to server..."
PollWaitingText == "Waiting for local AI worker..."
UnreachableText == "Could not connect to server."
ReconnectingText == "Disconnected. Trying to reconnect..."
NewChatText == "AI worker connected."
ProcessingText == "Processing 'a.pdf'..."
ThinkingText == "AI is thinking..."
ErrorText == "Error. Please try again."
UploadFailedText == "Upload failed."
\* a status text of the worker that has "Ready for questions" in it
ReadyText == "PDF processed. Ready for questions."
\* `Ready: ${currentPDFName}`
ReadyMsg(name) == IF name = None THEN "Ready: null" ELSE "Ready: a.pdf"
\* message.data.includes("Ready for questions")
IncludesReady(data) == data = ReadyText

\* `Status: ${message}`: the prefix, then the message
StatusLine(message) == <<"Status: ", message>>
\* text.replace('Status: ', ''): the text without the first "Status: " in it
ReplaceStatus(text) ==
    IF text[1] = "Status: " THEN text[2] ELSE text[1]

\* what the server can send on a socket of the page: type, target, data
PageEnvelopes ==
    {<<"status", None, ReadyText>>, <<"status", None, ConnectedText>>,
     <<"status", None, DisconnectedText>>,
     <<"answer_chunk", "pdf_chat", "d1">>, <<"answer_chunk", "ai_chat", "d1">>,
     <<"answer_end", "pdf_chat", "">>, <<"answer_end", "ai_chat", "">>,
     <<"error", None, "d1">>, <<"chat_list", None, "">>}
\* how a fetch of the page can end
ProbeAnswers == {"connected", "waiting", "failed"}
Sockets == 1..MaxSockets

\* setUIState(state, message): the status line and the `disabled` property of
\* the upload input, the question input and button, the AI chat input and button
setUIState(state, message) ==
    LET isChatReady == state = "ready_to_chat"
        isWorkerReady == state = "worker_ready" \/ isChatReady IN
    [status |-> StatusLine(message),
     pdfUploadInput |-> ~isWorkerReady,
     messageInput |-> ~isChatReady,
     sendButton |-> ~isChatReady,
     messageInputAI |-> ~isWorkerReady,
     sendButtonAI |-> ~isWorkerReady]

\* what addMessage does to the page's elements, its last statement:
\* setUIState(ui.status.textContent.replace('Status: ', ''))
addMessage(u) == setUIState(ReplaceStatus(u.status), "")

\* the markup: the status line and the `disabled` attributes
Markup ==
    [status |-> StatusLine(ConnectingText),
     pdfUploadInput |-> TRUE, messageInput |-> TRUE, sendButton |-> TRUE,
     messageInputAI |-> TRUE, sendButtonAI |-> TRUE]

\* the script at the end of the DOMContentLoaded callback: the status timer
\* armed, the first checkWorkerStatus waiting for its fetch, the PDF tab shown
PageInit ==
    /\ ui = Markup
    /\ js = [pdfStreamingBubble |-> FALSE, aiChatStreamingBubble |-> FALSE,
             socket |-> 0, statusInterval |-> TRUE, pingInterval |-> FALSE,
             currentPDFName |-> None, activeTab |-> "pdf_chat",
             polls |-> 1, uploading |-> FALSE]
    /\ socks = [k \in Sockets |-> "unused"]
    /\ asks = 0

SocketIsOpen == js.socket # 0 /\ socks[js.socket] = "open"
Unused == {k \in Sockets : socks[k] = "unused"}
Min(a, b) == IF a < b THEN a ELSE b
Max(a, b) == IF a > b THEN a ELSE b

\* the status timer fires: checkWorkerStatus up to its fetch
PollTick ==
    /\ js.statusInterval
    /\ js.polls < MaxPolls
    /\ js' = [js EXCEPT !.polls = @ + 1]
    /\ UNCHANGED <<ui, socks, asks, gatewayVars, uploadVars>>

\* checkWorkerStatus from the answer of its fetch on; with worker_connected it
\* goes through connectWebSocket, which makes socket a new WebSocket
PollAnswer(r) ==
    /\ js.polls > 0
    /\ CASE r = "connected" ->
              /\ Unused # {}
              /\ LET k == CHOOSE x \in Unused : \A y \in Unused : x <= y IN
                  /\ socks' = [socks EXCEPT ![k] = "connecting"]
                  /\ js' = [js EXCEPT !.polls = @ - 1, !.statusInterval = FALSE,
                                      !.socket = k]
              /\ ui' = setUIState("worker_ready", ConnectedText)
         [] r = "waiting" ->
              /\ js' = [js EXCEPT !.polls = @ - 1]
              /\ ui' = setUIState("waiting_for_worker", PollWaitingText)
              /\ socks' = socks
         [] OTHER ->
              /\ js' = [js EXCEPT !.polls = @ - 1]
              /\ ui' = setUIState("error", UnreachableText)
              /\ socks' = socks
    /\ UNCHANGED <<asks, gatewayVars, uploadVars>>

\* socket.onopen of WebSocket k: the ping timer is armed
SocketOpen(k) ==
    /\ socks[k] = "connecting"
    /\ socks' = [socks EXCEPT ![k] = "open"]
    /\ js' = [js EXCEPT !.pingInterval = TRUE]
    /\ UNCHANGED <<ui, asks, gatewayVars, uploadVars>>

\* socket.onclose of WebSocket k
SocketClose(k) ==
    /\ socks[k] \in {"connecting", "open"}
    /\ socks' = [socks EXCEPT ![k] = "closed"]
    /\ js' = [js EXCEPT !.pingInterval = FALSE, !.statusInterval = TRUE]
    /\ ui' = setUIState("disconnected", ReconnectingText)
    /\ UNCHANGED <<asks, gatewayVars, uploadVars>>

\* socket.onmessage of WebSocket k: handleServerMessage(message)
OnMessage(k, type, target, data) ==
    /\ socks[k] = "open"
    /\ CASE type = "status" ->
              /\ ui' = IF IncludesReady(data)
                       THEN setUIState("ready_to_chat", ReadyMsg(js.currentPDFName))
                       ELSE addMessage(ui)
              /\ UNCHANGED <<js, asks>>
         [] type = "answer_chunk" /\ target = "ai_chat" ->
              /\ ui' = IF js.aiChatStreamingBubble THEN ui ELSE addMessage(ui)
              /\ js' = [js EXCEPT !.aiChatStreamingBubble = TRUE]
              /\ asks' = asks
         [] type = "answer_chunk" /\ target # "ai_chat" ->
              /\ ui' = IF js.pdfStreamingBubble THEN ui ELSE addMessage(ui)
              /\ js' = [js EXCEPT !.pdfStreamingBubble = TRUE]
              /\ asks' = asks
         [] type = "answer_end" /\ target = "ai_chat" ->
              /\ ui' = setUIState("worker_ready", NewChatText)
              /\ js' = [js EXCEPT !.aiChatStreamingBubble = FALSE]
              /\ asks' = asks
         [] type = "answer_end" /\ target # "ai_chat" ->
              /\ ui' = setUIState("ready_to_chat", ReadyMsg(js.currentPDFName))
              /\ js' = [js EXCEPT !.pdfStreamingBubble = FALSE]
              /\ asks' = Max(asks - 1, 0)
         [] type = "error" ->
              /\ ui' = setUIState("worker_ready", ErrorText)
              /\ js' = [js EXCEPT !.pdfStreamingBubble = FALSE,
                                  !.aiChatStreamingBubble = FALSE]
              /\ asks' = Max(asks - 1, 0)
         [] OTHER ->
              UNCHANGED <<ui, js, asks>>
    /\ UNCHANGED <<socks, gatewayVars, uploadVars>>

\* sendMessage, from the send button or the Enter key of the question input,
\* with a question typed
sendMessage ==
    /\ ~ui.sendButton \/ ~ui.messageInput
    /\ SocketIsOpen
    /\ asks < MaxAsks
    /\ asks' = asks + 1
    /\ ui' = setUIState("ai_thinking", ThinkingText)
    /\ UNCHANGED <<js, socks, gatewayVars, uploadVars>>

\* sendMessageAIChat, from the button or the Enter key of the AI chat input
sendMessageAIChat ==
    /\ ~ui.sendButtonAI \/ ~ui.messageInputAI
    /\ SocketIsOpen
    /\ ui' = setUIState("ai_thinking", ThinkingText)
    /\ UNCHANGED <<js, socks, asks, gatewayVars, uploadVars>>

\* a click on one of the two tabs
TabClick(t) ==
    /\ js.activeTab # t
    /\ js' = [js EXCEPT !.activeTab = t]
    /\ UNCHANGED <<ui, socks, asks, gatewayVars, uploadVars>>

\* startNewChat, from the new chat button
startNewChat ==
    /\ js' = [js EXCEPT !.currentPDFName =
                            IF js.activeTab = "pdf_chat" THEN None ELSE @]
    /\ ui' = setUIState("worker_ready", NewChatText)
    /\ UNCHANGED <<socks, asks, gatewayVars, uploadVars>>

\* uploadPDF, from the change of the upload input, up to its fetch
uploadPDF ==
    /\ ~ui.pdfUploadInput
    /\ ~js.uploading
    /\ js' = [js EXCEPT !.currentPDFName = "a.pdf", !.uploading = TRUE]
    /\ ui' = addMessage(setUIState("processing", ProcessingText))
    /\ UNCHANGED <<socks, asks, gatewayVars, uploadVars>>

\* uploadPDF from the answer of its fetch on
UploadAnswer(ok) ==
    /\ js.uploading
    /\ js' = [js EXCEPT !.uploading = FALSE]
    /\ ui' = IF ok THEN ui ELSE setUIState("worker_ready", UploadFailedText)
    /\ UNCHANGED <<socks, asks, gatewayVars, uploadVars>>

\* ---------------------------------------------------------------- base64
\* the characters of one upload_chunk: 512 KiB in the reference deployment,
\* here four, a multiple of the four characters of a group as 524288 is
ChunkSize == 4

\* The base64 alphabet as the numbers 0..63, and the padding character
Pad == 64
\* the values a byte of a body is drawn from
Bytes == {77, 255}
RECURSIVE SeqsUpTo(_, _)
SeqsUpTo(S, n) ==
    IF n = 0 THEN {<<>>}
    ELSE LET shorter == SeqsUpTo(S, n - 1) IN
         shorter \cup {Append(q, x) : q \in {r \in shorter : Len(r) = n - 1}, x \in S}

\* one group of one, two or three bytes as four characters
EncodeGroup(g) ==
    LET n == g[1] * 65536 + (IF Len(g) >= 2 THEN g[2] ELSE 0) * 256
                          + (IF Len(g) = 3 THEN g[3] ELSE 0)
        c1 == n \div 262144
        c2 == (n \div 4096) % 64
        c3 == (n \div 64) % 64
        c4 == n % 64 IN
    CASE Len(g) = 3 -> <<c1, c2, c3, c4>>
      [] Len(g) = 2 -> <<c1, c2, c3, Pad>>
      [] OTHER -> <<c1, c2, Pad, Pad>>

\* base64.b64encode(body)
RECURSIVE b64encode(_)
b64encode(b) ==
    IF Len(b) = 0 THEN <<>>
    ELSE IF Len(b) <= 3 THEN EncodeGroup(b)
    ELSE EncodeGroup(SubSeq(b, 1, 3)) \o b64encode(SubSeq(b, 4, Len(b)))

\* four characters as the bytes they stand for
DecodeGroup(q) ==
    LET pads == Cardinality({i \in 3..4 : q[i] = Pad})
        n == q[1] * 262144 + q[2] * 4096
             + (IF q[3] = Pad THEN 0 ELSE q[3]) * 64
             + (IF q[4] = Pad THEN 0 ELSE q[4])
        b == <<n \div 65536, (n \div 256) % 256, n % 256>> IN
    SubSeq(b, 1, 3 - pads)

\* what stands for the exception of a decoder given a text it cannot decode
DecodeError == <<-1>>
\* base64.b64decode(text): a text whose length is no multiple of four is an error
RECURSIVE b64decode(_)
b64decode(t) ==
    IF Len(t) = 0 THEN <<>>
    ELSE IF Len(t) < 4 THEN DecodeError
    ELSE LET rest == b64decode(SubSeq(t, 5, Len(t))) IN
         IF rest = DecodeError THEN DecodeError
         ELSE DecodeGroup(SubSeq(t, 1, 4)) \o rest

\* the fragments in one piece
RECURSIVE Flatten(_)
Flatten(frags) ==
    IF Len(frags) = 0 THEN <<>> ELSE Head(frags) \o Flatten(Tail(frags))

\* text from position `from` on, cut after each position of cuts
RECURSIVE Split(_, _, _)
Split(text, from, cuts) ==
    IF cuts = {} THEN <<SubSeq(text, from + 1, Len(text))>>
    ELSE LET c == CHOOSE x \in cuts : \A y \in cuts : x <= y IN
         <<SubSeq(text, from + 1, c)>> \o Split(text, c, cuts \ {c})

\* ---------------------------------------------------------------- the upload
\* POST /upload/{user_id}, which the page's uploadPDF calls: the body is
\* base64-encoded and goes to the worker through forward_to_worker as
\* upload_start, the text in pieces of ChunkSize characters as upload_chunk,
\* upload_end, each with the user_id.  Every forward_to_worker is a suspension
\* point of the handler.
\* the writer of the upload's envelopes, where a session handler's is its connection
Http == "http"
Filename == "a.pdf"
NoUpload == [pc |-> "idle", user_id |-> NoUid, body |-> <<>>, text |-> <<>>,
             off |-> 0, to |-> <<>>]
UploadInit == up = NoUpload

\* a write of the upload handler ending as o: its envelope, whom it reached,
\* and the handler's next position, or "failed" if the write raised
UploadWrite(msg, o, pc, off) ==
    /\ forward_to_worker(msg, Http, o)
    /\ up' = [up EXCEPT !.pc = IF o \in {"disconnect", "error"} THEN "failed" ELSE pc,
                        !.off = off,
                        !.to = Append(@, IF o = "ok" THEN WorkerTarget ELSE None)]

\* the handler up to its first write: read the body, encode it, upload_start
UploadStart(u, body) ==
    /\ up.pc = "idle"
    /\ \E o \in ForwardOutcomes :
        /\ forward_to_worker(Envelope("upload_start", u, Filename), Http, o)
        /\ up' = [pc |-> IF o \in {"disconnect", "error"} THEN "failed" ELSE "chunks",
                  user_id |-> u, body |-> body, text |-> b64encode(body), off |-> 0,
                  to |-> <<IF o = "ok" THEN WorkerTarget ELSE None>>]
    /\ UNCHANGED <<web_clients, local_worker, spc, uid, wpc, it, chan, outbox,
                   slog, wlog, events, pageVars, rs>>

\* one turn of the loop over the text: the next ChunkSize characters
UploadChunk ==
    /\ up.pc = "chunks"
    /\ up.off < Len(up.text)
    /\ LET piece == SubSeq(up.text, up.off + 1, Min(up.off + ChunkSize, Len(up.text))) IN
       \E o \in ForwardOutcomes :
           UploadWrite(Envelope("upload_chunk", up.user_id, piece), o, "chunks",
                       up.off + ChunkSize)
    /\ UNCHANGED <<web_clients, local_worker, spc, uid, wpc, it, chan, outbox,
                   slog, wlog, events, pageVars, rs>>

\* after the loop: upload_end
UploadEnd ==
    /\ up.pc = "chunks"
    /\ up.off >= Len(up.text)
    /\ \E o \in ForwardOutcomes :
           UploadWrite(Envelope("upload_end", up.user_id, ""), o, "done", up.off)
    /\ UNCHANGED <<web_clients, local_worker, spc, uid, wpc, it, chan, outbox,
                   slog, wlog, events, pageVars, rs>>

\* ---------------------------------------------------------------- the reassembler
\* The worker's chunk reassembler (start, append, finish) for one identifier,
\* with the fragments it is to be given: frags[1..fed] have been appended.
Reassembler(payload, frags) ==
    [payload |-> payload, frags |-> frags, fed |-> 0,
     buffer |-> [open |-> FALSE, fragments |-> <<>>],
     result |-> [done |-> FALSE, bytes |-> <<>>]]
ReassemblerInit == rs = Reassembler(<<>>, <<>>)

\* finish as a bug would have it: each fragment decoded by itself
finish_EachFragment(fragments) ==
    LET RECURSIVE each(_)
        each(f) == IF Len(f) = 0 THEN <<>>
                   ELSE b64decode(Head(f)) \o each(Tail(f)) IN
    each(fragments)

\* finish(id): the fragments concatenated, then decoded
finish(fragments) == b64decode(Flatten(fragments))

\* start(id, filename): a new buffer in place of any other
RsStart ==
    /\ ~rs.buffer.open
    /\ ~rs.result.done
    /\ rs' = [rs EXCEPT !.buffer = [open |-> TRUE, fragments |-> <<>>]]
    /\ UNCHANGED <<gatewayVars, pageVars, up>>

\* append(id, fragment)
RsAppend ==
    /\ rs.buffer.open
    /\ rs.fed < Len(rs.frags)
    /\ rs' = [rs EXCEPT !.fed = @ + 1,
                        !.buffer.fragments = Append(@, rs.frags[rs.fed + 1])]
    /\ UNCHANGED <<gatewayVars, pageVars, up>>

\* finish(id), all fragments given: the bytes, and the buffer cleared
RsFinish ==
    /\ rs.buffer.open
    /\ rs.fed = Len(rs.frags)
    /\ rs' = [rs EXCEPT !.buffer = [open |-> FALSE, fragments |-> <<>>],
                        !.result = [done |-> TRUE, bytes |-> finish(rs.buffer.fragments)]]
    /\ UNCHANGED <<gatewayVars, pageVars, up>>

\* ---------------------------------------------------------------- specifications
\* the gateway started, the page loaded, no upload made
Init == GatewayInit /\ PageInit /\ UploadInit /\ ReassemblerInit

Next ==
    \/ \E c \in SessConns : \E u \in PathUsers(c) : SessConnect(c, u)
    \/ \E c \in SessConns : SessListChats(c)
    \/ \E c \in SessConns, m \in ClientSends : SessRecv(c, m[1], m[2])
    \/ \E c \in SessConns : SessDisconnect(c)
    \/ \E c \in SessConns : SessBadJson(c)
    \/ \E c \in SessConns \cup WorkConns : PeerClose(c)
    \/ \E w \in WorkConns : WorkerConnect(w)
    \/ \E w \in WorkConns : WorkerNotifyOn(w)
    \/ \E w \in WorkConns, m \in WorkerEmits : WorkerRecv(w, m[1], m[2])
    \/ \E w \in WorkConns : WorkerDisconnect(w)
    \/ \E w \in WorkConns : WorkerNotifyOff(w)
    \/ \E w \in WorkConns : WorkerBadJson(w)

Spec == Init /\ [][Next]_vars

\* the page alone, with a gateway and a worker that may answer anything
NextUI ==
    \/ PollTick
    \/ \E r \in ProbeAnswers : PollAnswer(r)
    \/ \E k \in Sockets : SocketOpen(k)
    \/ \E k \in Sockets : SocketClose(k)
    \/ \E k \in Sockets, m \in PageEnvelopes : OnMessage(k, m[1], m[2], m[3])
    \/ sendMessage
    \/ sendMessageAIChat
    \/ \E t \in {"pdf_chat", "ai_chat"} : TabClick(t)
    \/ startNewChat
    \/ uploadPDF
    \/ \E ok \in BOOLEAN : UploadAnswer(ok)

SpecUI == Init /\ [][NextUI]_vars

\* one upload, with workers that come and go
NextUpload ==
    \/ \E u \in Users, body \in SeqsUpTo(Bytes, MaxFile) : UploadStart(u, body)
    \/ UploadChunk
    \/ UploadEnd
    \/ \E w \in WorkConns : WorkerConnect(w)
    \/ \E w \in WorkConns : PeerClose(w)
    \/ \E w \in WorkConns : WorkerDisconnect(w)

SpecUpload == Init /\ [][NextUpload]_vars

\* the reassembler given any payload of the upload's encoding, cut anywhere
InitReassembly ==
    /\ GatewayInit /\ PageInit /\ UploadInit
    /\ \E payload \in SeqsUpTo(Bytes, MaxFile) :
        LET text == b64encode(payload) IN
        \E cuts \in SUBSET (0..Len(text)) :
            rs = Reassembler(payload, Split(text, 0, cuts))

NextReassembly ==
    \/ RsStart
    \/ RsAppend
    \/ RsFinish

SpecReassembly == InitReassembly /\ [][NextReassembly]_vars


\* ================================================================ claims
Conns == SessConns \cup WorkConns
Last(q) == q[Len(q)]
\* the handler of session connection c reads an envelope in this step
SessSends(c) == Len(slog'[c]) = Len(slog[c]) + 1
\* the handler of worker connection w reads an envelope in this step
WorkerEmitsNow(w) == Len(wlog'[w]) = Len(wlog[w]) + 1
\* the envelopes of inbox q that the handler of session connection c read from its
\* browser (list_chats is the gateway's own)
FromSession(q, c) ==
    LET keep(e) == e.src = c /\ e.env.type # "list_chats"
        picked == SelectSeq(q, keep)
    IN [i \in 1..Len(picked) |-> picked[i].env]
Tagged(q, u) == [i \in 1..Len(q) |-> Tag(q[i], u)]
IsError(e) == e.type = "error"

\* C1: whenever a registered session sends an envelope while no worker is
\* connected, routing it does not raise and the session receives exactly one
\* error envelope for it (and nothing else)
C1_ErrorWhenNoWorker ==
    [][\A c \in SessConns :
        (SessSends(c) /\ local_worker = None /\ Lookup(web_clients, uid[c]) = c)
        => /\ spc'[c] = "recv"
           /\ Len(outbox'[c]) = Len(outbox[c]) + 1
           /\ IsError(Last(outbox'[c]))]_vars

\* C2: with one worker connected since before the session registered, the worker
\* has received exactly the envelopes the session has sent, each once, in the
\* order sent, each tagged with the session's user_id
OnlyWorker(w) ==
    /\ local_worker = w
    /\ chan[w] = "open"
    /\ \A x \in WorkConns \ {w} : chan[x] = "new"
SawWorkerOnConnect(c) ==
    /\ outbox[c] # <<>>
    /\ outbox[c][1] = StatusEnvelope(ConnectedText)
C2_InOrderExactlyOnce ==
    \A c \in SessConns, w \in WorkConns :
        (OnlyWorker(w) /\ SawWorkerOnConnect(c))
        => FromSession(inbox[w], c) = Tagged(slog[c], uid[c])

C2_Witness ==
    \E c \in SessConns, w \in WorkConns :
        /\ OnlyWorker(w) /\ SawWorkerOnConnect(c)
        /\ Len(slog[c]) >= 2
        /\ slog[c][1].type # slog[c][2].type
        /\ FromSession(inbox[w], c) = Tagged(slog[c], uid[c])


\* C3: an envelope the worker emits with user_id = u while a session is registered
\* under u and connected is appended unmodified to that session's channel, in
\* the step it is read, and to no other session's channel
IsAnswer(e) == e.type = "answer_chunk"
Answers(q) == SelectSeq(q, IsAnswer)
C3_RoutedToAddressee ==
    [][\A w \in WorkConns, c \in SessConns :
        (/\ WorkerEmitsNow(w)
         /\ Last(wlog'[w]).user_id # NoUid
         /\ Lookup(web_clients, Last(wlog'[w]).user_id) = c
         /\ chan[c] = "open")
        => /\ outbox'[c] = Append(outbox[c], Last(wlog'[w]))
           /\ \A x \in SessConns \ {c} : outbox'[x] = outbox[x]]_vars

C3_Witness ==
    \E c, x \in SessConns, w \in WorkConns :
        /\ c # x /\ uid[c] # uid[x]
        /\ Lookup(web_clients, uid[c]) = c /\ Lookup(web_clients, uid[x]) = x
        /\ Len(wlog[w]) >= 2
        /\ Answers(outbox[c]) = wlog[w]
        /\ Answers(outbox[x]) = <<>>

\* C4: a ping envelope a session sends is never forwarded to the worker
C4_PingNeverForwarded ==
    \A w \in WorkConns : \A i \in 1..Len(inbox[w]) : inbox[w][i].env.type # "ping"

\* C5: a connection is in the worker slot only after it has sent a handshake
\* envelope
SentHandshake(w) == \E i \in 1..Len(wlog[w]) : wlog[w][i].type = "auth"
C5_WorkerOnlyAfterHandshake ==
    \A w \in WorkConns : local_worker = w => SentHandshake(w)

\* C6: every envelope forwarded for a session carries the user_id the session is
\* registered under, and is fixed by that user_id and the type and payload the
\* browser sent, whatever user_id the browser put in it
C6_TaggedWithRegisteredId ==
    \A w \in WorkConns : \A i \in 1..Len(inbox[w]) :
        LET e == inbox[w][i] IN
        /\ e.env.user_id = uid[e.src]
        /\ e.env.type # "list_chats" =>
             \E k \in 1..Len(slog[e.src]) :
                e.env = Envelope(slog[e.src][k].type, uid[e.src], slog[e.src][k].data)

C6_Witness ==
    \E w \in WorkConns : \E i \in 1..Len(inbox[w]) :
        LET e == inbox[w][i] IN
        /\ uid[e.src] = "alice"
        /\ e.env.user_id = "alice"
        /\ \E k \in 1..Len(slog[e.src]) :
             /\ slog[e.src][k].data = e.env.data
             /\ slog[e.src][k].user_id = "bob"

\* C7: once a second connection has registered under the identifier of a first,
\* a lookup of the identifier gives the second connection while the identifier
\* is registered, and the first connection's channel is written no more
Superseded(c1, c2) ==
    /\ c2 # c1 /\ c1 \in Earlier(c2)
    /\ uid[c1] # NoUid /\ uid[c1] = uid[c2]
Serving(w) == chan[w] = "open" /\ wpc[w] \in {"notify_on", "recv"}
C8_SecondWorkerGetsAll ==
    [][\A w1, w2 \in WorkConns, c \in SessConns :
        (w1 \in Earlier(w2) /\ Serving(w2) /\ SessSends(c))
        => /\ inbox'[w2] = Append(inbox[w2], [env |-> Tag(Last(slog'[c]), uid[c]), src |-> c])
           /\ inbox'[w1] = inbox[w1]]_vars

\* C9: an envelope the worker emits whose user_id names no registered session,
\* or that has none, is written to no session and leaves the worker in the slot
\* and in its read loop; and a session's channel is only ever written a status
\* envelope of the gateway or the envelope a worker emits in that very step
Unaddressed(e) == e.user_id = NoUid \/ ~HasKey(web_clients, e.user_id)
C9_DroppedNotBuffered ==
    [][/\ \A w \in WorkConns :
            (WorkerEmitsNow(w) /\ Unaddressed(Last(wlog'[w])))
            => /\ outbox' = outbox
               /\ local_worker' = local_worker
               /\ wpc'[w] = "recv"
       /\ \A c \in SessConns :
            outbox'[c] # outbox[c]
            => /\ Len(outbox'[c]) = Len(outbox[c]) + 1
               /\ \/ Last(outbox'[c]).type = "status"
                  \/ \E w \in WorkConns :
                        WorkerEmitsNow(w) /\ Last(outbox'[c]) = Last(wlog'[w])]_vars

C9_Witness ==
    \E w \in WorkConns, c \in SessConns :
        /\ Len(wlog[w]) >= 1
        /\ wlog[w][1].user_id = uid[c]
        /\ Lookup(web_clients, uid[c]) = c
        /\ chan[c] = "open" /\ events = 1
        /\ Answers(outbox[c]) = <<>>
        /\ local_worker = w /\ wpc[w] = "recv"

\* C10: a delivery attempt to a session whose browser has gone away fails
\* silently: the worker stays in the slot and its handler stays in its read loop
C10_DeadSessionSilent ==
    [][\A w \in WorkConns :
        (/\ WorkerEmitsNow(w)
         /\ ClientTarget(Last(wlog'[w])) # None
         /\ chan[ClientTarget(Last(wlog'[w]))] = "closed")
        => /\ local_worker' = local_worker
           /\ wpc'[w] = "recv"]_vars


\* C11: a write of a session's envelope to a worker whose transport has closed,
\* the slot not yet cleared, is absorbed: the session stays registered and its
\* handler stays in its read loop
C11_WorkerWriteFailureAbsorbed ==
    [][\A c \in SessConns :
        (SessSends(c) /\ local_worker # None /\ chan[local_worker] = "closed")
        => /\ spc'[c] = "recv"
           /\ web_clients' = web_clients]_vars

\* C12: a session whose handler has registered it has been sent an auth_success
\* envelope carrying the identifier it is registered under
C12_AuthSuccessAfterRegister ==
    \A c \in SessConns :
        spc[c] \in {"list_chats", "recv"}
        => \E i \in 1..Len(outbox[c]) :
              outbox[c][i].type = "auth_success" /\ outbox[c][i].user_id = uid[c]

\* C13: the deregistration a session handler runs when it ends changes nothing
\* if its identifier is absent, and otherwise removes that identifier and leaves
\* every other entry as it is; the worker slot is unchanged either way
Deregisters(c) == spc[c] = "recv" /\ spc'[c] = "done"
C13_DeregisterFrame ==
    [][\A c \in SessConns :
        Deregisters(c)
        => /\ local_worker' = local_worker
           /\ ~HasKey(web_clients, uid[c]) => web_clients' = web_clients
           /\ ~HasKey(web_clients', uid[c])
           /\ \A u \in Users \ {uid[c]} :
                Lookup(web_clients', u) = Lookup(web_clients, u)]_vars

C13_Witness ==
    \E c, x \in SessConns :
        /\ spc[c] = "done" /\ uid[x] # uid[c]
        /\ ~HasKey(web_clients, uid[c])
        /\ Lookup(web_clients, uid[x]) = x
        /\ local_worker # None

C15_OneAskAtATime ==
    /\ asks > 0 => ui.messageInput /\ ui.sendButton
    /\ asks <= 1

\* what the upload handler's writes have put on worker connection w
FromHttp(e) == e.src = Http
UploadSeen(w) == SelectSeq(inbox[w], FromHttp)
\* all of it, in the order of the writes: w1 is never the worker after w2
Relayed == UploadSeen("w1") \o UploadSeen("w2")
\* every write of the upload reached worker connection w
AllReached(w) == \A i \in 1..Len(up.to) : up.to[i] = w
ChunkData(q) == [i \in 1..(Len(q) - 2) |-> q[i + 1].env.data]

C17_ReassemblyRoundTrip ==
    rs.result.done => rs.result.bytes = rs.payload

\* a payload of two groups, the second padded, given in three fragments or
\* more, the first of them ending inside a group
C17_Witness ==
    /\ rs.result.done
    /\ Len(rs.payload) = 4
    /\ Len(rs.frags) >= 3
    /\ Len(rs.frags[1]) % 4 # 0

\* C18: when the first of two connections registered under one identifier
\* disconnects, the identifier stays registered to the second
C18_SupersededDisconnectKeepsEntry ==
    [][\A c1, c2 \in SessConns :
        (/\ Superseded(c1, c2)
         /\ Lookup(web_clients, uid[c2]) = c2
         /\ Deregisters(c1))
        => Lookup(web_clients', uid[c2]) = c2]_vars

\* C19: when the handler of a replaced worker sees its disconnect, the slot
\* still holds the worker that replaced it and no session is written a status
WorkerHandlerLeavesLoop(w) == wpc[w] = "recv" /\ wpc'[w] # "recv"
C19_ReplacedWorkerDisconnectKeepsSlot ==
    [][\A w1, w2 \in WorkConns :
        (/\ w1 \in Earlier(w2)
         /\ local_worker = w2
         /\ WorkerHandlerLeavesLoop(w1))
        => /\ local_worker' = w2
           /\ outbox' = outbox]_vars

\* C20: no registry entry and no worker slot refers to a connection whose
\* handler has ended
SessEnded(c) == spc[c] \in {"done", "crashed"}
WorkerEnded(w) == wpc[w] \in {"done", "crashed"}
C20_NoEntryForEndedHandler ==
    /\ \A c \in SessConns : SessEnded(c) => Lookup(web_clients, uid[c]) # c
    /\ \A w \in WorkConns : WorkerEnded(w) => local_worker # w

\* session connection c was registered when worker connection w connected and
\* has been since, with its transport open: c was told that no worker was there
\* when it connected, the slot has held w ever since w connected, and the
\* registry still maps c's identifier to c
RegisteredSince(c, w) ==
    /\ local_worker = w
    /\ Len(outbox[c]) > 0
    /\ outbox[c][1] = StatusEnvelope(WaitingText)
    /\ Lookup(web_clients, uid[c]) = c
    /\ chan[c] = "open"
Got(c, text) == \E i \in 1..Len(outbox[c]) : outbox[c][i] = StatusEnvelope(text)
\* worker connection w's handler is past connect_local_worker
NotifiedOn(w) == wpc[w] \notin {"idle", "notify_on"}

\* C21: when a worker connects, every session registered at that time is sent
\* the status envelope saying a worker is connected (and likewise the
\* disconnected one when it leaves): once the worker's handler is past the
\* notification, each such session has got it.
C21_RegisteredSessionsNotified ==
    \A w \in WorkConns, c \in SessConns :
        (NotifiedOn(w) /\ RegisteredSince(c, w)) => Got(c, ConnectedText)

\* worker connection w's handler is in connect_local_worker or in
\* disconnect_local_worker, or about to enter one of them
InNotification(w) ==
    \/ wpc[w] \in {"idle", "notify_on", "notify_off"}
    \/ wpc[w] = "recv" /\ chan[w] = "closed"

\* C22: a session registering or deregistering, or a write to a session's
\* channel failing, while the worker-connected or worker-disconnected
\* notification is being sent does not abort it: the worker's handler never
\* ends inside the notification, it goes on to its read loop or finishes.
C22_NotificationNeverAborted ==
    [][\A w \in WorkConns : InNotification(w) => wpc'[w] # "crashed"]_vars

IsStatus(e) == e.type = "status"
Statuses(c) == SelectSeq(outbox[c], IsStatus)
\* no handler is suspended in a write of its own making: no notification loop
\* is under way and no session handler is before its list_chats
NoSendPending ==
    /\ \A w \in WorkConns : wpc[w] \notin {"notify_on", "notify_off"}
    /\ \A c \in SessConns : spc[c] # "list_chats"
\* what the last status envelope session connection c has got says of the worker
SaysConnected(c) == Last(Statuses(c)).data = ConnectedText

\* C23: in every interleaving of session connects with worker connects and
\* disconnects, once no handler has a send pending, the last worker status
\* each registered session has got agrees with the worker slot: "connected"
\* exactly when a worker is in the slot.
C23_LastStatusAgreesWithSlot ==
    NoSendPending =>
        \A c \in SessConns :
            (Lookup(web_clients, uid[c]) = c /\ chan[c] = "open")
            => (SaysConnected(c) <=> local_worker # None)

\* the envelopes the handler of session connection c has put on q, list_chats included
WrittenBy(q, c) ==
    LET own(e) == e.src = c
        picked == SelectSeq(q, own)
    IN [i \in 1..Len(picked) |-> picked[i].env]
\* all that the handler of c has got to a worker, in the order of the writes:
\* w1 is never in the slot after w2
Forwarded(c) == WrittenBy(inbox["w1"], c) \o WrittenBy(inbox["w2"], c)
IsListChats(e) == e.type = "list_chats"
ListChatsCount(q, c) == Len(SelectSeq(WrittenBy(q, c), IsListChats))

\* C24 as stated: the first envelope a session gets is a status envelope; if
\* it says a worker is connected, a list_chats envelope with the session's
\* user_id reaches the worker before any envelope the session sent; if it
\* says none is, no list_chats is ever sent for the connection.
C24_ListChatsBeforeAnyEnvelope ==
    \A c \in SessConns :
        Len(outbox[c]) > 0 =>
            /\ outbox[c][1].type = "status"
            /\ IF outbox[c][1].data = ConnectedText
               THEN Forwarded(c) # <<>> => Forwarded(c)[1] = ListChats(uid[c])
               ELSE \A i \in 1..Len(Forwarded(c)) : ~IsListChats(Forwarded(c)[i])

\* C24 amended: the first envelope a session gets is a status envelope saying
\* whether the worker slot is occupied at that moment; if it is, the handler's
\* next write is list_chats with the session's user_id, made before anything
\* of the session is forwarded, and the worker in the slot at that write gets
\* it behind what it already has if its channel is open; list_chats is sent at
\* no other point, so never for a connection made while the slot was empty.
C24_ListChatsFirstIfWorkerStays ==
    [][\A c \in SessConns :
        /\ (spc[c] = "idle" /\ spc'[c] # "idle")
           => /\ outbox'[c] = <<StatusEnvelope(IF local_worker = None
                                               THEN WaitingText ELSE ConnectedText)>>
              /\ spc'[c] = "list_chats" <=> local_worker # None
        /\ spc[c] = "list_chats" => Forwarded(c) = <<>>
        /\ (/\ spc[c] = "list_chats" /\ spc'[c] # "list_chats"
            /\ local_worker # None /\ chan[local_worker] = "open")
           => inbox'[local_worker] =
                  Append(inbox[local_worker], [env |-> ListChats(uid[c]), src |-> c])
        /\ \A w \in WorkConns :
              ListChatsCount(inbox'[w], c) > ListChatsCount(inbox[w], c)
              => spc[c] = "list_chats"]_vars

\* a session that connected with a worker in the slot, whose list_chats and
\* then an envelope of its own that worker has got
C24_Witness ==
    \E c \in SessConns, w \in WorkConns :
        /\ Len(outbox[c]) > 0
        /\ outbox[c][1] = StatusEnvelope(ConnectedText)
        /\ Len(WrittenBy(inbox[w], c)) >= 2
        /\ WrittenBy(inbox[w], c)[1] = ListChats(uid[c])
        /\ WrittenBy(inbox[w], c)[2].type = "ask"

\* C25: after its socket closes the page polls the status probe on a timer
\* and, once a poll reports the worker connected, stops the timer and opens a
\* new socket; while the page's socket is open no status poll timer is running.
C25_NoPollTimerWhileSocketOpen ==
    SocketIsOpen => ~js.statusInterval

\* C26: addMessage leaves the page's readiness as it is: in any state in which
\* an envelope can arrive, the status line and which of the upload, question
\* and send controls are disabled are the same after addMessage as before, so
\* that a page in worker_ready that gets a status envelope without "Ready for
\* questions" still has the upload enabled.
C26_AddMessageKeepsReadiness ==
    SocketIsOpen => addMessage(ui) = ui

====
